---- MODULE Spec2Model ----
(***************************************************************************)
(* Model of the interview coach's progress-tracking engine:                *)
(* InterviewService (service.py) over the records of models.py, driven the *)
(* way app.py and test_service.py drive it.                                *)
(*                                                                         *)
(* Scores are Python floats in the code.  The model keeps them as exact    *)
(* fixed-point integers: a score v is stored as v * 100 * Scale with       *)
(* Scale = 2^MaxGrades, so that the halving of line 122 is exact for every *)
(* merge the bound allows.  Pct(n) is the score n/100.                     *)
(***************************************************************************)
EXTENDS Integers, Sequences, FiniteSets, TLC

VARIABLES
    history,    \* InterviewService.history: [sessions: Seq, progress: key -> record]
    file,       \* content of Config.HISTORY_FILE: NoFile or the JSON document
    now,        \* the wall clock read by datetime.now()
    graded,     \* number of evaluate_answer calls that returned (bounds the model)
    puts,       \* number of direct update_progress calls so far (bounds the model)
    crossed,    \* history variable: the <<key, subtopic>> pairs for which
                \* evaluate_answer has written a score >= 0.85
    history2,   \* the history of a second InterviewService on the same file,
                \* None while there is no second instance
    error,      \* the exception the last operation raised, "" when it returned
    st,         \* st.session_state of app.py
    selected,   \* the sidebar's selection: topic, difficulty and language
    request,    \* the question request the last user action sent, or None
    calls,      \* what the last user action did: oracle calls, saves, ...
    presented,  \* history variable: the questions shown in the running session
    answers,    \* history variable: the answers counted in the running session
    ledger,     \* history variable: per saved session, the answers counted in it
    faults,     \* number of oracle calls that failed or answered malformed
    switches    \* number of times the sidebar's selection was changed

\* The application's variables.
appvars == <<st, selected, request, calls, presented, answers, ledger, faults, switches>>

vars == <<history, file, now, graded, puts, crossed, history2, error, appvars>>

----------------------------------------------------------------------------
\* Bounds of the model.

MaxGrades == 2      \* answers graded (evaluate_answer calls that return)
MaxSessions == 1    \* session completions (save_session calls)
MaxPuts == 2        \* update_progress calls made directly by a caller
MaxAppends == 2     \* save_session calls made directly by a caller
MaxSubmits == 5     \* answers the application counts (questions_asked advanced)
MaxFaults == 1      \* oracle calls of the application that fail or answer malformed
MaxSwitches == 1    \* changes of the sidebar's selection

QUESTIONS_PER_SESSION == 5

\* Every merge halves once: the scale covers the merges of the graded answers
\* and of the application's sessions.
Scale == 2 ^ (MaxGrades + MaxSubmits + MaxFaults)
Pct(n) == n * Scale

----------------------------------------------------------------------------
\* Values.

None == <<>>                       \* Python None
Datetime(t) == <<"datetime", t>>   \* a datetime object
IsoText(t) == <<"iso", t>>         \* the text datetime.isoformat() produces

Topics == {"Python", "SQL"}                  \* config.py TOPICS (two of them)
Languages == {"EN", "RU"}                    \* config.py LANGUAGES values
SessionLanguages == {"EN"}                   \* the language the application starts in
Subtopics == {"Decorators", "Joins"}         \* Question.subtopic values the oracle uses

MASTERY_THRESHOLD == Pct(85)                 \* the literal 0.85 of line 126

\* The numeric subtopic_score values the grading oracle may return, in
\* hundredths; 150 is outside [0,1].
RawScores == {50, 95, 150}

\* model_dump() of a UserProgress.
UserProgress(topic, skill_level, confidence_score, last_session, language, recommended_topics, mastered_subtopics, subtopic_scores) ==
    [topic |-> topic, skill_level |-> skill_level,
     confidence_score |-> confidence_score, last_session |-> last_session,
     language |-> language, recommended_topics |-> recommended_topics,
     mastered_subtopics |-> mastered_subtopics,
     subtopic_scores |-> subtopic_scores]

\* model_dump() of an InterviewSession.
InterviewSession(topic, timestamp, questions_asked, correct_answers, difficulty_level, language, areas_for_improvement) ==
    [topic |-> topic, timestamp |-> timestamp,
     questions_asked |-> questions_asked, correct_answers |-> correct_answers,
     difficulty_level |-> difficulty_level, language |-> language,
     areas_for_improvement |-> areas_for_improvement,
     mastered_subtopics |-> <<>>]

----------------------------------------------------------------------------
\* Persistence.

NoFile == [absent |-> TRUE]
EmptyHistory == [sessions |-> <<>>, progress |-> <<>>]

serialize_datetime(obj) == IsoText(obj[2])
fromisoformat(text) == Datetime(text[2])

\* json.dump(self.history, default=_serialize_datetime): every datetime in the
\* document becomes its ISO text, None becomes null.
json_dump(h) ==
    [sessions |-> [i \in DOMAIN h.sessions |->
                     [h.sessions[i] EXCEPT !.timestamp = serialize_datetime(@)]],
     progress |-> [k \in DOMAIN h.progress |->
                     [h.progress[k] EXCEPT !.last_session =
                         IF @ = None THEN None ELSE serialize_datetime(@)]]]

\* Mutant of deserialize_datetime: last_session is left as the text read.
deserialize_datetime_sessions_only(data) ==
    [sessions |-> [i \in DOMAIN data.sessions |->
                     [data.sessions[i] EXCEPT !.timestamp = fromisoformat(@)]],
     progress |-> data.progress]

deserialize_datetime(data) ==
    [sessions |-> [i \in DOMAIN data.sessions |->
                     [data.sessions[i] EXCEPT !.timestamp = fromisoformat(@)]],
     progress |-> [k \in DOMAIN data.progress |->
                     [data.progress[k] EXCEPT !.last_session =
                         IF @ # None THEN fromisoformat(@) ELSE @]]]

\* _load_history: FileNotFoundError gives the empty history.
load_history(f) == IF f = NoFile THEN EmptyHistory ELSE deserialize_datetime(f)

\* A file that exists and cannot be read: json.load rejects its text, or
\* open() is refused.
CorruptFiles == {[corrupt |-> "JSONDecodeError"], [corrupt |-> "PermissionError"]}

\* Mutant of load_outcome: a file that cannot be read is taken for an empty
\* history.
load_outcome_recover(f) ==
    [raised |-> "",
     history |-> IF f \in CorruptFiles THEN EmptyHistory ELSE load_history(f)]

\* _load_history with the exceptions it lets through: only FileNotFoundError
\* is caught.
load_outcome(f) ==
    IF f \in CorruptFiles
    THEN [raised |-> f.corrupt, history |-> None]
    ELSE [raised |-> "", history |-> load_history(f)]

\* A service instance is its in-memory history together with the file it
\* writes: svc = [history |-> ..., file |-> ...].
Service(h, f) == [history |-> h, file |-> f]

\* A save that reads the file first and keeps what it finds there beside
\* the in-memory history.
save_history_merge(svc) ==
    LET disk == load_history(svc.file)
        mem == svc.history
        merged == [sessions |-> disk.sessions \o SelectSeq(mem.sessions, LAMBDA x : ~\E i \in DOMAIN disk.sessions : disk.sessions[i] = x),
                   progress |-> [k \in DOMAIN disk.progress \cup DOMAIN mem.progress |->
                                    IF k \in DOMAIN mem.progress THEN mem.progress[k]
                                    ELSE disk.progress[k]]]
    IN  Service(svc.history, json_dump(merged))

\* _save_history: the whole file is rewritten from the in-memory history.
save_history(svc) == Service(svc.history, json_dump(svc.history))

----------------------------------------------------------------------------
\* The store operations of InterviewService, as functions of the service.

\* Mutant of Key: the language is left out of the key.
Key_topic_only(topic, language) == topic

\* lines 181 and 186: f"{topic}_{language}"
Key(topic, language) == topic \o "_" \o language

get_topic_progress(svc, topic, language) ==
    IF Key(topic, language) \in DOMAIN svc.history.progress
    THEN svc.history.progress[Key(topic, language)]
    ELSE None

Put(f, k, v) == [x \in DOMAIN f \cup {k} |-> IF x = k THEN v ELSE f[x]]

\* Mutant of update_progress: the record is put in memory and not saved.
update_progress_unsaved(svc, progress) ==
    [svc EXCEPT !.history.progress =
        Put(@, Key(progress.topic, progress.language), progress)]

update_progress(svc, progress) ==
    save_history([svc EXCEPT !.history.progress =
                      Put(@, Key(progress.topic, progress.language), progress)])

\* Mutant of save_session: the list is assigned instead of appended to.
save_session_assign(svc, session) ==
    save_history([svc EXCEPT !.history.sessions = <<session>>])

save_session(svc, session) ==
    save_history([svc EXCEPT !.history.sessions = Append(@, session)])

----------------------------------------------------------------------------
\* Grading: evaluate_answer.

\* What the grading oracle answered.  json = FALSE stands for a failed call or
\* a text json.loads rejects; otherwise fields is the set of keys of the parsed
\* object and the other components are their values (read only when present).
\* numeric = FALSE stands for a subtopic_score that is no number.
EvalFields == {"is_correct", "explanation", "improvement_tips", "subtopic_score"}

Evaluation(json, fields, is_correct, numeric, subtopic_score) ==
    [json |-> json, fields |-> fields, is_correct |-> is_correct,
     numeric |-> numeric, subtopic_score |-> subtopic_score]

Evaluations ==
    {Evaluation(TRUE, EvalFields, TRUE, TRUE, Pct(r)) : r \in RawScores}
    \cup {Evaluation(TRUE, EvalFields \ {"subtopic_score"}, TRUE, TRUE, 0),
          Evaluation(TRUE, EvalFields \ {"is_correct"}, TRUE, TRUE, Pct(95)),
          Evaluation(TRUE, EvalFields, TRUE, FALSE, 0),
          Evaluation(FALSE, {}, FALSE, FALSE, 0)}

Question(topic, subtopic) == [topic |-> topic, subtopic |-> subtopic]

Questions == {Question(t, s) : t \in Topics, s \in Subtopics}

Contains(seq, x) == \E i \in DOMAIN seq : seq[i] = x

\* Mutant of current_score: an untracked subtopic starts from 0.5.
current_score_half(progress, subtopic) ==
    IF subtopic \in DOMAIN progress.subtopic_scores
    THEN progress.subtopic_scores[subtopic]
    ELSE Pct(50)

\* line 121: dict.get(subtopic, 0.0)
current_score(progress, subtopic) ==
    IF subtopic \in DOMAIN progress.subtopic_scores
    THEN progress.subtopic_scores[subtopic]
    ELSE 0

\* Mutant of new_score: the latest raw score replaces the stored one.
new_score_latest(current, subtopic_score) == subtopic_score

\* line 122
new_score(current, subtopic_score) == (current + subtopic_score) \div 2

\* Mutant of mark_mastered: the list follows the current score, so a subtopic
\* whose score falls below the threshold is taken off it.
mark_mastered_current(mastered_subtopics, subtopic, score) ==
    LET Other(x) == x # subtopic
    IN  IF score >= MASTERY_THRESHOLD
        THEN IF Contains(mastered_subtopics, subtopic)
             THEN mastered_subtopics
             ELSE Append(mastered_subtopics, subtopic)
        ELSE SelectSeq(mastered_subtopics, Other)

\* Mutant of mark_mastered: the comparison with the threshold is strict.
mark_mastered_strict(mastered_subtopics, subtopic, score) ==
    IF score > MASTERY_THRESHOLD /\ ~Contains(mastered_subtopics, subtopic)
    THEN Append(mastered_subtopics, subtopic)
    ELSE mastered_subtopics

\* Mutant of mark_mastered: the subtopic is appended without looking whether
\* the list has it.
mark_mastered_append(mastered_subtopics, subtopic, score) ==
    IF score >= MASTERY_THRESHOLD
    THEN Append(mastered_subtopics, subtopic)
    ELSE mastered_subtopics

\* lines 126-128
mark_mastered(mastered_subtopics, subtopic, score) ==
    IF score >= MASTERY_THRESHOLD /\ ~Contains(mastered_subtopics, subtopic)
    THEN Append(mastered_subtopics, subtopic)
    ELSE mastered_subtopics

\* lines 120-128: the record after the merge of one graded answer
merge_score(progress, subtopic, subtopic_score) ==
    LET score == new_score(current_score(progress, subtopic), subtopic_score)
    IN  [progress EXCEPT
            !.subtopic_scores = Put(@, subtopic, score),
            !.mastered_subtopics = mark_mastered(@, subtopic, score)]

\* Mutant of evaluate_answer: a key without a record gets a new record that
\* holds the first score.
evaluate_answer_upsert(svc, question, evaluation, language) ==
    LET unchanged(raised) == [svc |-> svc, raised |-> raised]
        stored == get_topic_progress(svc, question.topic, language)
        progress == IF stored # None THEN stored
                    ELSE UserProgress(question.topic, "Beginner", 0, None,
                                      language, <<>>, <<>>, <<>>)
    IN  IF ~evaluation.json THEN unchanged(TRUE)
        ELSE IF "subtopic_score" \notin evaluation.fields THEN unchanged(TRUE)
        ELSE IF ~evaluation.numeric THEN unchanged(TRUE)
        ELSE [svc |-> update_progress(svc,
                  merge_score(progress, question.subtopic, evaluation.subtopic_score)),
              raised |-> FALSE]

\* evaluate_answer: the service it leaves and whether it raised.
evaluate_answer(svc, question, evaluation, language) ==
    LET unchanged(raised) == [svc |-> svc, raised |-> raised]
        progress == get_topic_progress(svc, question.topic, language)
    IN  IF ~evaluation.json THEN unchanged(TRUE)
        ELSE IF progress = None THEN unchanged(FALSE)
        ELSE IF "subtopic_score" \notin evaluation.fields THEN unchanged(TRUE)
        ELSE IF ~evaluation.numeric THEN unchanged(TRUE)
        ELSE [svc |-> update_progress(svc,
                  merge_score(progress, question.subtopic, evaluation.subtopic_score)),
              raised |-> FALSE]

----------------------------------------------------------------------------
\* Session analysis: analyze_performance.

AnalysisFields == {"skill_level", "confidence_score", "recommended_topics"}

\* The keyword arguments analyze_performance passes itself (lines 167-171); a
\* payload key equal to one of them makes the call of line 166 a TypeError.
ExplicitKwargs == {"topic", "last_session", "language", "mastered_subtopics",
                   "subtopic_scores"}

Analysis(json, fields, skill_level, confidence_score, recommended_topics) ==
    [json |-> json, fields |-> fields, skill_level |-> skill_level,
     confidence_score |-> confidence_score,
     recommended_topics |-> recommended_topics]

Analyses ==
    {Analysis(TRUE, AnalysisFields, "Advanced", 120, <<"Joins">>),
     Analysis(TRUE, AnalysisFields \cup {"notes"}, "Beginner", 50, <<>>),
     Analysis(TRUE, AnalysisFields \cup {"mastered_subtopics"}, "Beginner", 50, <<>>),
     Analysis(TRUE, AnalysisFields \ {"confidence_score"}, "Beginner", 0, <<>>),
     Analysis(FALSE, {}, "", 0, <<>>)}

\* Mutant of analyze_performance: the new record starts with no mastered
\* subtopics and no scores instead of carrying the stored ones forward.
analyze_performance_reset(svc, topic, language, analysis, t) ==
    IF ~analysis.json THEN [raised |-> TRUE, progress |-> None]
    ELSE IF analysis.fields \cap ExplicitKwargs # {}
         THEN [raised |-> TRUE, progress |-> None]
    ELSE IF ~(AnalysisFields \subseteq analysis.fields)
         THEN [raised |-> TRUE, progress |-> None]
    ELSE [raised |-> FALSE,
          progress |-> UserProgress(topic, analysis.skill_level,
                           analysis.confidence_score, Datetime(t), language,
                           analysis.recommended_topics, <<>>, <<>>)]

\* analyze_performance: whether it raised, and the UserProgress it returns.
analyze_performance(svc, topic, language, analysis, t) ==
    LET existing_progress == get_topic_progress(svc, topic, language)
        mastered_subtopics ==
            IF existing_progress # None THEN existing_progress.mastered_subtopics
            ELSE <<>>
        subtopic_scores ==
            IF existing_progress # None THEN existing_progress.subtopic_scores
            ELSE <<>>
    IN  IF ~analysis.json THEN [raised |-> TRUE, progress |-> None]
        ELSE IF analysis.fields \cap ExplicitKwargs # {}
             THEN [raised |-> TRUE, progress |-> None]
        ELSE IF ~(AnalysisFields \subseteq analysis.fields)
             THEN [raised |-> TRUE, progress |-> None]
        ELSE [raised |-> FALSE,
              progress |-> UserProgress(topic, analysis.skill_level,
                               analysis.confidence_score, Datetime(t), language,
                               analysis.recommended_topics, mastered_subtopics,
                               subtopic_scores)]

----------------------------------------------------------------------------
\* The end of a session as app.py runs it (lines 152-171): the session is
\* saved, the analysis is requested, and its result is stored.

DifficultyLevels == {"Intermediate"}           \* config.py DIFFICULTY_LEVELS (one of them)

CorrectCounts == {3}                           \* correct_answers of a finished session

\* Lines 154-171 for the counters the recorder holds: the service and the
\* clock after the three calls, and whether one raised.
end_session(svc, topic, difficulty, language, questions_asked, correct_answers, areas, analysis, t) ==
    LET session == InterviewSession(topic, Datetime(t), questions_asked,
                                    correct_answers, difficulty, language, areas)
        saved == save_session(svc, session)
        result == analyze_performance(saved, topic, language, analysis, t + 1)
    IN  IF result.raised
        THEN [svc |-> saved, raised |-> TRUE, now |-> t + 1]
        ELSE [svc |-> update_progress(saved, result.progress),
              raised |-> FALSE, now |-> t + 2]

\* The end of a session that counted QUESTIONS_PER_SESSION questions.
finalize_session(svc, topic, difficulty, language, correct_answers, areas, analysis, t) ==
    end_session(svc, topic, difficulty, language, QUESTIONS_PER_SESSION,
                correct_answers, areas, analysis, t)

----------------------------------------------------------------------------
\* The application's own state (app.py).

\* initialize_session_state: the defaults of st.session_state (the language
\* lives in the sidebar's selection, the text of the answer is not modelled).
initialize_session_state ==
    [current_question |-> None, questions_asked |-> 0, correct_answers |-> 0,
     improvement_areas |-> <<>>, answer_submitted |-> FALSE,
     needs_new_question |-> FALSE, previous_questions |-> <<>>]

\* The three select boxes of the sidebar (lines 43-60).
Selection(topic, difficulty, language) ==
    [topic |-> topic, difficulty |-> difficulty, language |-> language]

\* Nothing done yet by a user action.
NoCalls == [action |-> "", oracle |-> 0, saves |-> 0, completed |-> FALSE]

\* No answer counted yet in the running session.  counted: per answer that
\* advanced questions_asked, the selections under which its question was
\* asked and graded; correct: the number of this session's answers that a
\* grading called correct; credited: the position among the session's
\* questions of the last answer a grading called correct.
NoAnswers == [counted |-> <<>>, correct |-> 0, credited |-> 0]

\* What a user action did before the script came to rest.
Calls(action, oracle, saves, completed) ==
    [action |-> action, oracle |-> oracle, saves |-> saves, completed |-> completed]

\* The oracle's answers to a question request: a question on the requested
\* topic, or None for a call that fails or a text that is no Question.
QuestionReplies(topic) == {Question(topic, s) : s \in Subtopics} \cup {None}

\* The gradings the oracle returns to the application: correct, incorrect,
\* correct without the explanation field, and a failed call.  The verdict
\* and the score are separate fields; the score is the same in all of them.
AppEvaluations ==
    {Evaluation(TRUE, EvalFields, TRUE, TRUE, Pct(95)),
     Evaluation(TRUE, EvalFields, FALSE, TRUE, Pct(95)),
     Evaluation(TRUE, EvalFields \ {"explanation"}, TRUE, TRUE, Pct(95)),
     Evaluation(FALSE, {}, FALSE, FALSE, 0)}

\* The analyses the oracle returns to the application: accepted, or failed.
AppAnalyses ==
    {Analysis(TRUE, AnalysisFields, "Advanced", 120, <<"Joins">>),
     Analysis(FALSE, {}, "", 0, <<>>)}

\* generate_question, lines 49-62: what the prompt tells the oracle to avoid.
generate_request(svc, topic, difficulty, language, previous_questions) ==
    LET progress == get_topic_progress(svc, topic, language)
    IN  [topic |-> topic, difficulty |-> difficulty, language |-> language,
         mastered_subtopics |->
            IF progress # None THEN progress.mastered_subtopics ELSE <<>>,
         previous_questions |-> previous_questions]

\* Mutant of new_question: the question on screen is not added to the
\* previous questions.
new_question_forgetful(svc, selection, state, reply) ==
    LET previous == state.previous_questions
    IN  [request |-> generate_request(svc, selection.topic, selection.difficulty,
                                      selection.language, previous),
         raised |-> reply = None,
         st |-> IF reply = None
                THEN [state EXCEPT !.previous_questions = previous]
                ELSE [state EXCEPT !.previous_questions = previous,
                                   !.current_question = reply,
                                   !.needs_new_question = FALSE]]

\* Lines 82-94, run when needs_new_question is set: the request sent, and the
\* session state after the oracle's reply (generate_question raises on None).
new_question(svc, selection, state, reply) ==
    LET previous == IF state.current_question # None
                    THEN Append(state.previous_questions, state.current_question)
                    ELSE state.previous_questions
    IN  [request |-> generate_request(svc, selection.topic, selection.difficulty,
                                      selection.language, previous),
         raised |-> reply = None,
         st |-> IF reply = None
                THEN [state EXCEPT !.previous_questions = previous]
                ELSE [state EXCEPT !.previous_questions = previous,
                                   !.current_question = reply,
                                   !.needs_new_question = FALSE]]

\* Mutant of session_complete: the session ends one question early.
session_complete_early(questions_asked) == questions_asked >= QUESTIONS_PER_SESSION - 1

\* line 152
session_complete(questions_asked) == questions_asked >= QUESTIONS_PER_SESSION

\* lines 173-181
reset_session_state(state) ==
    [state EXCEPT !.current_question = None, !.questions_asked = 0,
                  !.correct_answers = 0, !.improvement_areas = <<>>,
                  !.answer_submitted = FALSE, !.needs_new_question = FALSE,
                  !.previous_questions = <<>>]

\* The handler of the Submit button, lines 124-183: the answer is graded
\* (which may write the progress), the counters are advanced, and when the
\* session is complete it is saved, analysed, and the session state reset.
\* raised names what stopped the handler; session_state keeps what was
\* assigned before.  oracle and saves count the calls made, counted says
\* whether questions_asked was advanced.
submit_answer(svc, selection, state, evaluation, analysis, t) ==
    LET graded_ == evaluate_answer(svc, state.current_question, evaluation,
                                   selection.language)
        wrote == IF get_topic_progress(svc, state.current_question.topic,
                                       selection.language) # None THEN 1 ELSE 0
        outcome(service, st_, raised, oracle, saves, completed, counted, clock) ==
            [svc |-> service, st |-> st_, raised |-> raised, oracle |-> oracle,
             saves |-> saves, completed |-> completed, counted |-> counted,
             now |-> clock]
        st1 == [state EXCEPT !.correct_answers =
                   IF evaluation.is_correct THEN @ + 1 ELSE @]
        st2 == [st1 EXCEPT !.questions_asked = @ + 1,
                           !.improvement_areas = Append(@, "improvement_tips"),
                           !.answer_submitted = TRUE]
        ended == end_session(graded_.svc, selection.topic, selection.difficulty,
                             selection.language, st2.questions_asked,
                             st2.correct_answers, st2.improvement_areas, analysis, t)
    IN  IF graded_.raised
        THEN outcome(svc, state, "evaluate_answer", 1, 0, FALSE, FALSE, t)
        ELSE IF "is_correct" \notin evaluation.fields
        THEN outcome(graded_.svc, state, "KeyError", 1, wrote, FALSE, FALSE, t)
        ELSE IF ~({"explanation", "improvement_tips"} \subseteq evaluation.fields)
        THEN outcome(graded_.svc, st1, "KeyError", 1, wrote, FALSE, FALSE, t)
        ELSE IF ~session_complete(st2.questions_asked)
        THEN outcome(graded_.svc, st2, "", 1, wrote, FALSE, TRUE, t)
        ELSE IF ended.raised
        THEN outcome(ended.svc, st2, "analyze_performance", 2, wrote + 1, TRUE,
                     TRUE, ended.now)
        ELSE outcome(ended.svc, reset_session_state(st2), "", 2, wrote + 2, TRUE,
                     TRUE, ended.now)

----------------------------------------------------------------------------
\* The state machine.

\* The record test_mastered_subtopics stores before it grades (lines
\* 183-197): one mastered subtopic with its score, one tracked below the
\* threshold.
FixtureProgress ==
    UserProgress("Python", "Intermediate", 75, Datetime(0), "EN",
                 <<"Advanced Topics">>, <<"Joins">>,
                 [s \in Subtopics |-> IF s = "Joins" THEN Pct(90) ELSE Pct(75)])

\* What Config.HISTORY_FILE may hold when the program starts: nothing, or
\* the document an earlier run saved.
InitialFiles ==
    {NoFile, update_progress(Service(EmptyHistory, NoFile), FixtureProgress).file}

Init ==
    /\ file \in InitialFiles
    /\ history = load_history(file)
    /\ now = 1
    /\ graded = 0
    /\ puts = 0
    /\ crossed = {}
    /\ history2 = None
    /\ error = ""
    /\ st = initialize_session_state
    /\ selected = Selection("Python", "Intermediate", "EN")
    /\ request = None
    /\ calls = NoCalls
    /\ presented = <<>>
    /\ answers = NoAnswers
    /\ ledger = <<>>
    /\ faults = 0
    /\ switches = 0

\* InterviewService(): a new instance loads the file (app.py line 37 does so
\* on every run of the script).
Construct ==
    /\ history' = load_history(file)
    /\ UNCHANGED <<file, now, graded, puts, crossed>>
    /\ UNCHANGED <<history2, error, appvars>>

\* The UserProgress objects a caller hands to update_progress directly, as
\* test_service.py does.
ProgressInputs ==
    {UserProgress(t, "Intermediate", c, m[1], l, <<"Advanced Topics">>, m[2], m[3]) :
        t \in Topics, l \in Languages, c \in {50, 75},
        m \in {<<None, <<>>, <<>>>>,
               <<Datetime(now), <<"Joins">>,
                 [s \in Subtopics |-> IF s = "Joins" THEN Pct(90) ELSE Pct(75)]>>}}

\* One update_progress call.
UpdateProgress(progress) ==
    /\ puts < MaxPuts
    /\ LET svc == update_progress(Service(history, file), progress)
       IN  /\ history' = svc.history
           /\ file' = svc.file
    /\ puts' = puts + 1
    /\ UNCHANGED <<now, graded, crossed>>
    /\ UNCHANGED <<history2, error, appvars>>

\* One evaluate_answer call.  A call that raises leaves everything as it
\* was; a call that returns counts as one graded answer.
EvaluateAnswer(question, evaluation, language) ==
    LET svc == Service(history, file)
        result == evaluate_answer(svc, question, evaluation, language)
        key == Key(question.topic, language)
        wrote == /\ ~result.raised
                 /\ get_topic_progress(svc, question.topic, language) # None
    IN  /\ ~result.raised => graded < MaxGrades
        /\ graded' = IF result.raised THEN graded ELSE graded + 1
        /\ history' = result.svc.history
        /\ file' = result.svc.file
        /\ crossed' =
              IF wrote /\ history'.progress[key].subtopic_scores[question.subtopic]
                             >= MASTERY_THRESHOLD
              THEN crossed \cup {<<key, question.subtopic>>}
              ELSE crossed
        /\ UNCHANGED <<now, puts>>
        /\ UNCHANGED <<history2, error, appvars>>

\* One session completion.
FinalizeSession(topic, difficulty, language, correct_answers, analysis) ==
    LET result == finalize_session(Service(history, file), topic, difficulty,
                                   language, correct_answers, <<>>, analysis, now)
    IN  /\ Len(history.sessions) < MaxSessions
        /\ UNCHANGED <<graded, puts, crossed>>
        /\ UNCHANGED <<history2, error, appvars>>
        /\ now' = result.now
        /\ history' = result.svc.history
        /\ file' = result.svc.file

\* The engine as the application drives it: answers are graded and sessions
\* are completed.
Next ==
    \/ Construct
    \/ \E question \in Questions, evaluation \in Evaluations, language \in SessionLanguages :
          EvaluateAnswer(question, evaluation, language)
    \/ \E topic \in Topics, difficulty \in DifficultyLevels, language \in SessionLanguages,
          correct_answers \in CorrectCounts, analysis \in Analyses :
          FinalizeSession(topic, difficulty, language, correct_answers, analysis)

Spec == Init /\ [][Next]_vars

\* The same engine started on a machine that has no history file yet.
InitFresh == Init /\ file = NoFile

SpecFresh == InitFresh /\ [][Next]_vars

\* The store as a caller of update_progress drives it.
NextStore ==
    \/ Construct
    \/ \E progress \in ProgressInputs : UpdateProgress(progress)

SpecStore == Init /\ [][NextStore]_vars

\* The InterviewSession objects a caller hands to save_session directly, as
\* test_service.py does: the timestamp is the clock's reading.
SessionInputs ==
    {InterviewSession(t, Datetime(now), QUESTIONS_PER_SESSION, c, "Intermediate",
                      "EN", <<"Decorators">>) :
        t \in Topics, c \in CorrectCounts}

\* One save_session call.
SaveSession(session) ==
    /\ Len(history.sessions) < MaxAppends
    /\ LET svc == save_session(Service(history, file), session)
       IN  /\ history' = svc.history
           /\ file' = svc.file
    /\ now' = now + 1
    /\ UNCHANGED <<graded, puts, crossed, history2, error, appvars>>

\* One analyze_performance call: it returns a UserProgress or raises, and
\* leaves the service as it was.
AnalyzePerformance(topic, language, analysis) ==
    /\ error' = IF analyze_performance(Service(history, file), topic, language,
                                       analysis, now).raised
                THEN "analyze_performance" ELSE ""
    /\ UNCHANGED <<history, file, now, graded, puts, crossed, history2, appvars>>

\* The records handed to update_progress beside the other operations.
ServiceProgressInputs ==
    {p \in ProgressInputs : p.language \in SessionLanguages /\ p.confidence_score = 50}

\* The questions graded and the gradings returned beside the other
\* operations.
ServiceQuestions == {Question(t, "Decorators") : t \in Topics}

ServiceEvaluations ==
    {Evaluation(TRUE, EvalFields, TRUE, TRUE, Pct(95)), Evaluation(FALSE, {}, FALSE, FALSE, 0)}

\* One service instance with every public operation called in any order.
NextService ==
    \/ Construct
    \/ \E progress \in ServiceProgressInputs : UpdateProgress(progress)
    \/ \E session \in SessionInputs : SaveSession(session)
    \/ \E question \in ServiceQuestions, evaluation \in ServiceEvaluations,
          language \in SessionLanguages :
          EvaluateAnswer(question, evaluation, language)
    \/ \E topic \in Topics, language \in SessionLanguages, analysis \in Analyses :
          AnalyzePerformance(topic, language, analysis)

SpecService == Init /\ [][NextService]_vars

\* InterviewService() on whatever the file holds: when _load_history raises,
\* no instance is made and the caller is left with the one it had.
LoadHistory ==
    /\ LET outcome == load_outcome(file)
       IN  /\ error' = outcome.raised
           /\ history' = IF outcome.raised = "" THEN outcome.history ELSE history
    /\ UNCHANGED <<file, now, graded, puts, crossed, history2, appvars>>

\* The environment damages the file that is there, or removes it.
DamageFile(damaged) ==
    /\ file # NoFile
    /\ file' = damaged
    /\ UNCHANGED <<history, now, graded, puts, crossed, history2, error, appvars>>

RemoveFile ==
    /\ file # NoFile
    /\ file' = NoFile
    /\ UNCHANGED <<history, now, graded, puts, crossed, history2, error, appvars>>

\* The store on a file the environment may damage.
NextLoad ==
    \/ LoadHistory
    \/ \E progress \in ServiceProgressInputs : UpdateProgress(progress)
    \/ \E damaged \in CorruptFiles : DamageFile(damaged)
    \/ RemoveFile

SpecLoad == Init /\ [][NextLoad]_vars

\* update_progress and get_topic_progress take any strings (models.py 16,
\* 20: topic: str, language: str): topics and languages a caller of the
\* service may pass, among them ones that contain the separator.
KeyTopics == {"Python", "SQL", "SQL_EN"}

KeyLanguages == {"EN", "EN_EN"}

KeyProgressInputs ==
    {UserProgress(t, "Intermediate", c, None, l, <<"Advanced Topics">>, <<>>, <<>>) :
        t \in KeyTopics, l \in KeyLanguages, c \in {50, 75}}

\* The store as a caller with such strings drives it.
NextKeys ==
    \/ Construct
    \/ \E progress \in KeyProgressInputs : UpdateProgress(progress)

SpecKeys == Init /\ [][NextKeys]_vars

\* A second InterviewService on the same HISTORY_FILE (another browser
\* session of the application, another process): its own in-memory history,
\* loaded when it was constructed; None while it has not been constructed.
Construct2 ==
    /\ history2' = load_history(file)
    /\ UNCHANGED <<history, file, now, graded, puts, crossed, error, appvars>>

\* update_progress called on the second instance.
UpdateProgress2(progress) ==
    /\ history2 # None
    /\ puts < MaxPuts
    /\ LET svc == update_progress(Service(history2, file), progress)
       IN  /\ history2' = svc.history
           /\ file' = svc.file
    /\ puts' = puts + 1
    /\ UNCHANGED <<history, now, graded, crossed, error, appvars>>

\* save_session called on the second instance.
SaveSession2(session) ==
    /\ history2 # None
    /\ Len(history2.sessions) < MaxAppends
    /\ LET svc == save_session(Service(history2, file), session)
       IN  /\ history2' = svc.history
           /\ file' = svc.file
    /\ now' = now + 1
    /\ UNCHANGED <<history, graded, puts, crossed, error, appvars>>

\* The records and sessions the two instances are handed: a first record
\* for either topic, a finished Python session.
SharedProgressInputs == {p \in ServiceProgressInputs : p.last_session = None}

SharedSessionInputs == {s \in SessionInputs : s.topic = "Python"}

\* Two service instances on one file, their operations interleaved in any
\* order; each operation runs to its end before the next begins.
NextShared ==
    \/ Construct2
    \/ \E progress \in SharedProgressInputs : UpdateProgress(progress)
    \/ \E progress \in SharedProgressInputs : UpdateProgress2(progress)
    \/ \E session \in SharedSessionInputs : SaveSession(session)
    \/ \E session \in SharedSessionInputs : SaveSession2(session)

SpecShared == Init /\ [][NextShared]_vars

\* The number of answers the application has counted so far, in the saved
\* sessions and in the running one.
RECURSIVE CountedIn(_)
CountedIn(sessions) ==
    IF sessions = <<>> THEN 0
    ELSE Len(sessions[1].counted) + CountedIn(Tail(sessions))

CountedAnswers == CountedIn(ledger) + Len(answers.counted)

\* The service a run of the script works with: line 37 constructs it anew.
RunService == Service(load_history(file), file)

\* The part of a run that asks for a question (lines 82-94), for a user
\* action that leaves the session state at state and the sidebar at
\* selection.
Generate(action, state, selection, reply) ==
    LET run == new_question(RunService, selection, state, reply)
    IN  /\ reply = None => faults < MaxFaults
        /\ st' = run.st
        /\ request' = run.request
        /\ error' = IF run.raised THEN "generate_question" ELSE ""
        /\ faults' = IF run.raised THEN faults + 1 ELSE faults
        /\ presented' = IF run.raised THEN presented
                        ELSE Append(presented, [question |-> reply, selection |-> selection])
        /\ calls' = Calls(action, 1, 0, FALSE)
        /\ history' = RunService.history
        /\ UNCHANGED <<file, now, graded, puts, crossed, history2, answers, ledger>>

\* The user presses "Start New Question" (lines 96-102); the rerun asks for
\* the first question.
Start(reply) ==
    /\ st.current_question = None
    /\ ~st.needs_new_question
    /\ Generate("start", [st EXCEPT !.needs_new_question = TRUE,
                                    !.previous_questions = <<>>], selected, reply)
    /\ UNCHANGED <<selected, switches>>

\* The user presses "Next Question" (lines 186-193, get_next_question); the
\* rerun asks for the next question.
NextQuestion(reply) ==
    /\ st.current_question # None
    /\ ~st.needs_new_question
    /\ st.answer_submitted
    /\ st.questions_asked < QUESTIONS_PER_SESSION
    /\ Generate("next", [st EXCEPT !.needs_new_question = TRUE,
                                   !.answer_submitted = FALSE], selected, reply)
    /\ UNCHANGED <<selected, switches>>

\* The user picks a topic in the sidebar, or runs the page again after a
\* question request that failed: a run with no button pressed.  It asks for
\* a question when needs_new_question is still set.
Rerun(topic, reply) ==
    LET selection == [selected EXCEPT !.topic = topic]
    IN  /\ topic # selected.topic \/ st.needs_new_question
        /\ topic # selected.topic => switches < MaxSwitches
        /\ selected' = selection
        /\ switches' = IF topic # selected.topic THEN switches + 1 ELSE switches
        /\ IF st.needs_new_question
           THEN Generate("rerun", st, selection, reply)
           ELSE /\ reply = None
                /\ request' = None
                /\ error' = ""
                /\ calls' = Calls("rerun", 0, 0, FALSE)
                /\ history' = RunService.history
                /\ UNCHANGED <<file, now, graded, puts, crossed, history2, st,
                               presented, answers, ledger, faults>>

\* The user presses "Submit Answer" (lines 123-183).
Submit(evaluation, analysis) ==
    LET run == submit_answer(RunService, selected, st, evaluation, analysis, now)
        entry == [generated |-> presented[Len(presented)].selection,
                  graded |-> [selected EXCEPT !.topic = st.current_question.topic]]
        verdict == /\ run.raised # "evaluate_answer"
                   /\ "is_correct" \in evaluation.fields
                   /\ evaluation.is_correct
        credit == verdict /\ answers.credited # Len(presented)
        counted == [counted |-> IF run.counted THEN Append(answers.counted, entry)
                                ELSE answers.counted,
                    correct |-> IF credit THEN answers.correct + 1 ELSE answers.correct,
                    credited |-> IF credit THEN Len(presented) ELSE answers.credited]
        faulty == ~evaluation.json \/ ~(EvalFields \subseteq evaluation.fields)
    IN  /\ st.current_question # None
        /\ ~st.needs_new_question
        /\ ~st.answer_submitted
        /\ CountedAnswers < MaxSubmits
        /\ faulty => faults < MaxFaults
        /\ faults' = IF faulty THEN faults + 1 ELSE faults
        /\ st' = run.st
        /\ history' = run.svc.history
        /\ file' = run.svc.file
        /\ now' = run.now
        /\ error' = run.raised
        /\ request' = None
        /\ calls' = Calls("submit", run.oracle, run.saves, run.completed)
        /\ answers' = IF run.completed THEN NoAnswers ELSE counted
        /\ ledger' = IF run.completed THEN Append(ledger, counted) ELSE ledger
        /\ presented' = IF run.completed THEN <<>> ELSE presented
        /\ UNCHANGED <<graded, puts, crossed, history2, selected, switches>>

\* The application as its user drives it on one topic, with an oracle that
\* may fail.
NextApp ==
    \/ \E reply \in QuestionReplies(selected.topic) : Start(reply)
    \/ \E reply \in QuestionReplies(selected.topic) : NextQuestion(reply)
    \/ \E reply \in QuestionReplies(selected.topic) : Rerun(selected.topic, reply)
    \/ \E evaluation \in AppEvaluations, analysis \in AppAnalyses :
          Submit(evaluation, analysis)

SpecApp == Init /\ [][NextApp]_vars

\* The application with a user who also changes the topic in the sidebar,
\* and an oracle that answers every call well.
NextSidebar ==
    \/ \E reply \in QuestionReplies(selected.topic) \ {None} : Start(reply)
    \/ \E reply \in QuestionReplies(selected.topic) \ {None} : NextQuestion(reply)
    \/ \E topic \in Topics : Rerun(topic, None)
    \/ \E evaluation \in {e \in AppEvaluations : EvalFields \subseteq e.fields},
          analysis \in {a \in AppAnalyses : a.json} :
          Submit(evaluation, analysis)

SpecSidebar == Init /\ [][NextSidebar]_vars

\* The application with an oracle that answers every call well and writes
\* into the question whatever topic it chooses: Question(**question_data)
\* takes the topic field from the reply (service.py 91-92), not from the
\* selection.
NextOracleTopic ==
    \/ \E reply \in ServiceQuestions : Start(reply)
    \/ \E reply \in ServiceQuestions : NextQuestion(reply)
    \/ \E topic \in Topics : Rerun(topic, None)
    \/ \E evaluation \in {e \in AppEvaluations : EvalFields \subseteq e.fields},
          analysis \in {a \in AppAnalyses : a.json} :
          Submit(evaluation, analysis)

SpecOracleTopic == Init /\ [][NextOracleTopic]_vars

----------------------------------------------------------------------------
\* Properties.

\* The payload carries a numeric subtopic_score.
CarriesScore(evaluation) ==
    /\ evaluation.json
    /\ "subtopic_score" \in evaluation.fields
    /\ evaluation.numeric

\* The payload parses into all four expected fields.
WellFormed(evaluation) ==
    /\ evaluation.json
    /\ EvalFields \subseteq evaluation.fields
    /\ evaluation.numeric

ScoreOr0(scores, s) == IF s \in DOMAIN scores THEN scores[s] ELSE 0

\* C1 (merge averaging): an evaluate_answer call on an existing record whose
\* payload carries subtopic_score r leaves the graded subtopic's score at
\* exactly (p + r) / 2, p being the prior score or 0.0 when the subtopic was
\* not tracked, and leaves the score of every other subtopic as it was.
C1_MergeAveraging ==
    [][\A q \in Questions, ev \in Evaluations, l \in SessionLanguages :
         (/\ Key(q.topic, l) \in DOMAIN history.progress
          /\ CarriesScore(ev)
          /\ EvaluateAnswer(q, ev, l))
         => LET k == Key(q.topic, l)
                before == history.progress[k].subtopic_scores
                after == history'.progress[k].subtopic_scores
            IN  /\ DOMAIN after = DOMAIN before \cup {q.subtopic}
                /\ 2 * after[q.subtopic] = ScoreOr0(before, q.subtopic) + ev.subtopic_score
                /\ \A s \in DOMAIN before \ {q.subtopic} : after[s] = before[s]
      ]_vars

\* Two answers in a row on a subtopic a new record does not track yet, raw
\* scores 1.5 then 0.95: the stored score went 0.75, then 0.85.
C1_Witness ==
    /\ graded = 2
    /\ "SQL_EN" \in DOMAIN history.progress
    /\ history.progress["SQL_EN"].subtopic_scores = [s \in {"Decorators"} |-> Pct(85)]

\* C2 (mastery monotonicity): a subtopic in mastered_subtopics of a key's
\* record is still there after every graded answer and every session
\* completion, whatever its later scores, and whichever subtopic was graded.
C2_MasteryMonotonic ==
    [][\A k \in DOMAIN history.progress :
         /\ k \in DOMAIN history'.progress
         /\ \A s \in Subtopics :
              Contains(history.progress[k].mastered_subtopics, s)
              => Contains(history'.progress[k].mastered_subtopics, s)
      ]_vars

\* A mastered subtopic whose averaged score has fallen below 0.85.
C2_Witness ==
    \E k \in DOMAIN history.progress :
       \E s \in DOMAIN history.progress[k].subtopic_scores :
          /\ <<k, s>> \in crossed
          /\ Contains(history.progress[k].mastered_subtopics, s)
          /\ history.progress[k].subtopic_scores[s] < MASTERY_THRESHOLD

\* C3 (score range), as claimed: every stored subtopic score lies in [0,1].
C3_ScoresInRange ==
    \A k \in DOMAIN history.progress :
       \A s \in DOMAIN history.progress[k].subtopic_scores :
          /\ 0 <= history.progress[k].subtopic_scores[s]
          /\ history.progress[k].subtopic_scores[s] <= Pct(100)

\* C4 (finalize preserves mastery): a session completion whose analysis is
\* accepted, for a key that has a record, stores for that key the same
\* record with only skill_level, confidence_score, recommended_topics and
\* last_session replaced.
C4_FinalizePreserves ==
    [][\A t \in Topics, d \in DifficultyLevels, l \in SessionLanguages,
          c \in CorrectCounts, an \in Analyses :
         (/\ FinalizeSession(t, d, l, c, an)
          /\ Key(t, l) \in DOMAIN history.progress
          /\ ~finalize_session(Service(history, file), t, d, l, c, <<>>, an, now).raised)
         => LET before == history.progress[Key(t, l)]
                after == history'.progress[Key(t, l)]
            IN  /\ after.mastered_subtopics = before.mastered_subtopics
                /\ after.subtopic_scores = before.subtopic_scores
                /\ after.topic = before.topic
                /\ after.language = before.language
                /\ after.skill_level = an.skill_level
                /\ after.confidence_score = an.confidence_score
                /\ after.recommended_topics = an.recommended_topics
                /\ after.last_session = Datetime(now + 1)
      ]_vars

\* A completed session has replaced the analysis fields of the stored record
\* and its mastered subtopic and scores are the ones it had.
C4_Witness ==
    /\ Len(history.sessions) = 1
    /\ "Python_EN" \in DOMAIN history.progress
    /\ history.progress["Python_EN"].skill_level = "Advanced"
    /\ history.progress["Python_EN"].mastered_subtopics = FixtureProgress.mastered_subtopics
    /\ history.progress["Python_EN"].subtopic_scores = FixtureProgress.subtopic_scores

\* C5 (malformed payload), as claimed: a grading payload that does not parse
\* into all of is_correct, explanation, improvement_tips and subtopic_score,
\* or an analysis payload that does not parse into its three fields, leaves
\* the progress mapping as it was, in memory and in the file.
C5_MalformedLeavesProgress ==
    [][/\ \A q \in Questions, ev \in Evaluations, l \in SessionLanguages :
            (EvaluateAnswer(q, ev, l) /\ ~WellFormed(ev))
            => /\ history'.progress = history.progress
               /\ file' = file
       /\ \A t \in Topics, d \in DifficultyLevels, l \in SessionLanguages,
             c \in CorrectCounts, an \in Analyses :
            (FinalizeSession(t, d, l, c, an)
             /\ ~(an.json /\ AnalysisFields \subseteq an.fields))
            => /\ history'.progress = history.progress
               /\ file'.progress = json_dump(history).progress
      ]_vars

\* C6 (first score from no prior record), as claimed: grading an answer on
\* subtopic s with raw score r for a key that has no record leaves a record
\* for that key with subtopic_scores[s] = r / 2.
C6_FirstScoreFromNoRecord ==
    [][\A q \in Questions, ev \in Evaluations, l \in SessionLanguages :
         (/\ EvaluateAnswer(q, ev, l)
          /\ Key(q.topic, l) \notin DOMAIN history.progress
          /\ CarriesScore(ev))
         => /\ Key(q.topic, l) \in DOMAIN history'.progress
            /\ q.subtopic \in DOMAIN history'.progress[Key(q.topic, l)].subtopic_scores
            /\ 2 * history'.progress[Key(q.topic, l)].subtopic_scores[q.subtopic]
                  = ev.subtopic_score
      ]_vars

\* C6 as amended: grading an answer for a key that has no record stores
\* nothing, in memory or in the file; the first score r / 2 is what a record
\* that exists gets for a subtopic it does not track yet.
C6_FirstScoreNeedsRecord ==
    [][\A q \in Questions, ev \in Evaluations, l \in SessionLanguages :
         EvaluateAnswer(q, ev, l)
         => LET k == Key(q.topic, l)
            IN  /\ k \notin DOMAIN history.progress
                   => /\ history' = history
                      /\ file' = file
                /\ (/\ k \in DOMAIN history.progress
                    /\ CarriesScore(ev)
                    /\ q.subtopic \notin DOMAIN history.progress[k].subtopic_scores)
                   => 2 * history'.progress[k].subtopic_scores[q.subtopic]
                         = ev.subtopic_score
      ]_vars

\* An answer has been graded and the store is still empty.
C6_Witness ==
    /\ graded >= 1
    /\ history = EmptyHistory
    /\ file = NoFile

\* C7 (record lifecycle): no step removes a key; grading neither creates nor
\* removes a record and rewrites the record of its key with only the scores
\* and the mastered list changed; a key appears only in a session completion
\* for that key, and every completion whose analysis is accepted leaves a
\* record for its key.
C7_RecordLifecycle ==
    [][/\ \A k \in DOMAIN history.progress : k \in DOMAIN history'.progress
       /\ \A q \in Questions, ev \in Evaluations, l \in SessionLanguages :
            EvaluateAnswer(q, ev, l)
            => /\ DOMAIN history'.progress = DOMAIN history.progress
               /\ (Key(q.topic, l) \in DOMAIN history.progress /\ CarriesScore(ev))
                  => q.subtopic \in
                        DOMAIN history'.progress[Key(q.topic, l)].subtopic_scores
               /\ \A k \in DOMAIN history.progress :
                    history'.progress[k] =
                       [history.progress[k] EXCEPT
                           !.subtopic_scores = history'.progress[k].subtopic_scores,
                           !.mastered_subtopics = history'.progress[k].mastered_subtopics]
       /\ \A k \in DOMAIN history'.progress \ DOMAIN history.progress :
            \E t \in Topics, d \in DifficultyLevels, l \in SessionLanguages,
               c \in CorrectCounts, an \in Analyses :
               /\ FinalizeSession(t, d, l, c, an)
               /\ Key(t, l) = k
       /\ \A t \in Topics, d \in DifficultyLevels, l \in SessionLanguages,
             c \in CorrectCounts, an \in Analyses :
            (/\ FinalizeSession(t, d, l, c, an)
             /\ ~finalize_session(Service(history, file), t, d, l, c, <<>>, an, now).raised)
            => Key(t, l) \in DOMAIN history'.progress
      ]_vars

\* Two answers were graded and one session was completed; the only record
\* is the one the completion created, and it holds one score, r / 2: the
\* other answer was graded while its key had no record.
C7_Witness ==
    /\ graded = 2
    /\ Len(history.sessions) = 1
    /\ DOMAIN history.progress = {"SQL_EN"}
    /\ history.progress["SQL_EN"].subtopic_scores = [s \in {"Joins"} |-> Pct(50) \div 2]

NoDuplicates(seq) == \A i, j \in DOMAIN seq : i # j => seq[i] # seq[j]

\* C8 (mastered iff crossed threshold): in a record that grew from nothing
\* by graded answers and session completions, a subtopic is in
\* mastered_subtopics exactly when one of the scores written for it was
\* >= 0.85.
C8_MasteredIffCrossed ==
    \A k \in DOMAIN history.progress :
       \A s \in Subtopics :
          Contains(history.progress[k].mastered_subtopics, s) <=> <<k, s>> \in crossed

\* A subtopic mastered by an averaged score of exactly 0.85.
C8_Witness ==
    \E k \in DOMAIN history.progress :
       /\ "Decorators" \in DOMAIN history.progress[k].subtopic_scores
       /\ history.progress[k].subtopic_scores["Decorators"] = MASTERY_THRESHOLD
       /\ Contains(history.progress[k].mastered_subtopics, "Decorators")

\* C9 (no duplicate mastery entries): every record's mastered_subtopics
\* holds each subtopic at most once.
C9_NoDuplicateMastery ==
    \A k \in DOMAIN history.progress :
       NoDuplicates(history.progress[k].mastered_subtopics)

\* A subtopic that was mastered already has been graded >= 0.85 again.
C9_Witness ==
    /\ "Python_EN" \in DOMAIN history.progress
    /\ <<"Python_EN", "Joins">> \in crossed
    /\ 2 * history.progress["Python_EN"].subtopic_scores["Joins"] = Pct(90) + Pct(95)
    /\ history.progress["Python_EN"].mastered_subtopics = <<"Joins">>

\* C10 (upsert by key): after update_progress(p), get_topic_progress for p's
\* topic and language returns p, it returns for every other pair what it
\* returned before, and the number of records has grown by one if the key
\* had none and not at all otherwise.
C10_Upsert ==
    [][\A p \in ProgressInputs :
         UpdateProgress(p)
         => LET old == Service(history, file)
                new == Service(history', file')
            IN  /\ get_topic_progress(new, p.topic, p.language) = p
                /\ \A t \in Topics, l \in Languages :
                     <<t, l>> # <<p.topic, p.language>>
                     => get_topic_progress(new, t, l) = get_topic_progress(old, t, l)
                /\ Cardinality(DOMAIN history'.progress)
                     = Cardinality(DOMAIN history.progress)
                       + (IF get_topic_progress(old, p.topic, p.language) = None
                          THEN 1 ELSE 0)
      ]_vars

\* Two update_progress calls for one key have left one record.
C10_Witness ==
    /\ puts = 2
    /\ DOMAIN history.progress = {"SQL_RU"}
    /\ history.progress["SQL_RU"].confidence_score = 50

\* C11 (session list is append-only): every step leaves the sessions list as
\* it was or longer by one entry at its end; a save_session call appends its
\* session, and no other operation changes the list.
C11_SessionsAppendOnly ==
    [][/\ Len(history'.sessions) >= Len(history.sessions)
       /\ SubSeq(history'.sessions, 1, Len(history.sessions)) = history.sessions
       /\ \A session \in SessionInputs :
            SaveSession(session) => history'.sessions = Append(history.sessions, session)
       /\ (~ \E session \in SessionInputs : SaveSession(session))
            => history'.sessions = history.sessions
      ]_vars

\* Two save_session calls with an update_progress and a graded answer among
\* them: the list holds the two sessions in call order.
C11_Witness ==
    /\ Len(history.sessions) = 2
    /\ history.sessions[1].timestamp = Datetime(1)
    /\ history.sessions[1].topic = "SQL"
    /\ history.sessions[2].timestamp = Datetime(2)
    /\ history.sessions[2].topic = "Python"
    /\ puts >= 1
    /\ graded >= 1

\* A timestamp as the file holds it: ISO text.
IsText(x) == x # None /\ x[1] = "iso"

\* C12 (persistence round trip): what a save writes for the in-memory history
\* loads back to that history in every field; in the file every session
\* timestamp and every last_session that is present is text, decoding to the
\* value in memory, and an absent last_session is absent in the file and
\* after the load.
C12_RoundTrip ==
    LET saved == json_dump(history)
        loaded == load_history(saved)
    IN  /\ loaded = history
        /\ \A i \in DOMAIN history.sessions :
              /\ IsText(saved.sessions[i].timestamp)
              /\ fromisoformat(saved.sessions[i].timestamp) = history.sessions[i].timestamp
        /\ \A k \in DOMAIN history.progress :
              IF history.progress[k].last_session = None
              THEN /\ saved.progress[k].last_session = None
                   /\ loaded.progress[k].last_session = None
              ELSE /\ IsText(saved.progress[k].last_session)
                   /\ loaded.progress[k].last_session = history.progress[k].last_session

\* A saved history with a session, a record that has a last_session and a
\* record that has none, loaded again by a new instance.
C12_Witness ==
    /\ Len(history.sessions) >= 1
    /\ \E k1, k2 \in DOMAIN history.progress :
          /\ history.progress[k1].last_session = None
          /\ history.progress[k2].last_session = Datetime(2)
    /\ file = json_dump(history)
    /\ history = load_history(file)

\* C13 (load outcomes): constructing the service on an absent file gives the
\* empty history and no error; on a file that exists and cannot be read it
\* raises, puts no empty history in the place of what the caller had, and
\* leaves the file as it was.
C13_LoadOutcomes ==
    [][LoadHistory
       => /\ file' = file
          /\ file = NoFile => (history' = EmptyHistory /\ error' = "")
          /\ file \in CorruptFiles
                => /\ error' = file.corrupt
                   /\ history' = history
          /\ (file # NoFile /\ file \notin CorruptFiles)
                => (history' = deserialize_datetime(file) /\ error' = "")
      ]_vars

\* A load has failed on a damaged file while the caller's instance holds
\* records.
C13_Witness ==
    /\ error = "JSONDecodeError"
    /\ file \in CorruptFiles
    /\ DOMAIN history.progress # {}

\* C14 (session finalized exactly once), as claimed: a session record is
\* appended in the action in which the fifth answer is counted and in no
\* other, and each appended record has questions_asked equal to the session
\* length and correct_answers equal to the number of the session's answers
\* that were graded correct.
C14_FinalizedOnce ==
    /\ Len(history.sessions) = Len(ledger)
    /\ Len(answers.counted) < QUESTIONS_PER_SESSION
    /\ \A i \in DOMAIN history.sessions :
          /\ Len(ledger[i].counted) = QUESTIONS_PER_SESSION
          /\ history.sessions[i].questions_asked = QUESTIONS_PER_SESSION
          /\ history.sessions[i].correct_answers = ledger[i].correct

\* C15 (deduplication exclusion set): a question request carries every
\* subtopic in mastered_subtopics of the record stored for the requested
\* topic and language, and as previous questions exactly the questions shown
\* so far in the running session: all of them, and none of a finished one.
C15_ExclusionSet ==
    request # None =>
       LET stored == get_topic_progress(RunService, request.topic, request.language)
           shown == IF error = "generate_question" THEN presented
                    ELSE SubSeq(presented, 1, Len(presented) - 1)
       IN  /\ request.topic = selected.topic
           /\ request.language = selected.language
           /\ stored # None
                 => \A i \in DOMAIN stored.mastered_subtopics :
                       Contains(request.mastered_subtopics, stored.mastered_subtopics[i])
           /\ \A i \in DOMAIN shown :
                 Contains(request.previous_questions, shown[i].question)
           /\ \A j \in DOMAIN request.previous_questions :
                 \E i \in DOMAIN shown : shown[i].question = request.previous_questions[j]

\* A request within a session in which Decorators was mastered two answers
\* ago: it names Decorators and the two questions shown before.
C15_Witness ==
    /\ request # None
    /\ history.sessions = <<>>
    /\ Contains(request.mastered_subtopics, "Decorators")
    /\ Len(request.previous_questions) = 2
    /\ request.previous_questions[1] # request.previous_questions[2]

\* C16 (per-action bound), as claimed: every user action, the submit that
\* completes a session included, makes at most one oracle call and at most
\* one save of the history.
C16_OneCallOneSave ==
    /\ calls.oracle <= 1
    /\ calls.saves <= 1

\* C16 as amended: a user action makes at most one oracle call and at most
\* one save unless it is the submit that counts the last question of a
\* session; that one makes two oracle calls and at most three saves.
C16_PerActionBound ==
    /\ calls.oracle <= 2
    /\ calls.saves <= 3
    /\ (calls.oracle > 1 \/ calls.saves > 1)
          => /\ calls.action = "submit"
             /\ calls.completed
             /\ calls.oracle = 2
             /\ ledger # <<>>
             /\ Len(ledger[Len(ledger)].counted) = QUESTIONS_PER_SESSION

\* The submit that completed a session has graded, saved the score, saved
\* the session, asked for the analysis and saved the progress.
C16_Witness ==
    /\ calls.action = "submit"
    /\ calls.completed
    /\ calls.oracle = 2
    /\ calls.saves = 3
    /\ st = initialize_session_state

\* C17 (reset after finalize), as claimed: when a user action has appended
\* a session record, it leaves the recorder in its initial state (no
\* question on screen, counters 0, no improvement notes, no previous
\* questions), so that a new session can be started; also when the analysis
\* asked for during that action has failed.
C17_ResetAfterFinalize ==
    calls.completed
       => /\ st.current_question = None
          /\ st.questions_asked = 0
          /\ st.correct_answers = 0
          /\ st.improvement_areas = <<>>
          /\ st.previous_questions = <<>>
          /\ ~st.needs_new_question

\* C18 (lost update under sharing): with two instances on one file, every
\* save writes the whole file from the saving instance's memory, so the
\* file always holds exactly what one of the instances holds and never a
\* merge of the two; what the other instance had persisted and the saver
\* had not loaded is gone from the file (last writer wins).
C18_LastWriterWins ==
    \/ file = NoFile /\ history = EmptyHistory
    \/ file = json_dump(history)
    \/ history2 # None /\ file = json_dump(history2)

\* The lost update: the first instance holds a progress record and a
\* session it has saved, the second instance has saved after that, and the
\* file has neither the record nor the session.
C18_Witness ==
    /\ history2 # None
    /\ file = json_dump(history2)
    /\ \E k \in DOMAIN history.progress : k \notin DOMAIN load_history(file).progress
    /\ \E i \in DOMAIN history.sessions : ~Contains(load_history(file).sessions, history.sessions[i])
    /\ load_history(file) # EmptyHistory

\* C19 (write-through persistence): between the operations of a single
\* service instance the file decodes to exactly the instance's in-memory
\* history: update_progress, save_session and the score update inside
\* evaluate_answer have each saved before returning, and an operation
\* that raises has changed neither.
C19_WriteThrough ==
    /\ load_history(file) = history
    /\ history # EmptyHistory => file # NoFile

\* After a record was put, a session appended and an answer graded into a
\* stored score that crossed the threshold.
C19_Witness ==
    /\ puts >= 1
    /\ Len(history.sessions) >= 1
    /\ graded >= 1
    /\ \E k \in DOMAIN history.progress :
          /\ <<k, "Decorators">> \in crossed
          /\ Contains(history.progress[k].mastered_subtopics, "Decorators")
    /\ load_history(file).progress = history.progress

\* C20 (one topic, difficulty and language per session), as claimed: every
\* question counted in a saved session record was generated and graded
\* under the topic, difficulty and language the record stores.
C20_OneSelectionPerSession ==
    \A i \in DOMAIN ledger :
       i \in DOMAIN history.sessions =>
          LET record == history.sessions[i]
              stored == Selection(record.topic, record.difficulty_level, record.language)
          IN  \A j \in DOMAIN ledger[i].counted :
                 /\ ledger[i].counted[j].generated = stored
                 /\ ledger[i].counted[j].graded = stored

\* C21 (confidence range), as claimed: every progress record a session
\* completion has stored has a confidence_score between 0 and 1 (0 and 100
\* in the model's hundredths), whatever number the analysis carried.
C21_ConfidenceInRange ==
    \A k \in DOMAIN history.progress :
       /\ 0 <= history.progress[k].confidence_score
       /\ history.progress[k].confidence_score <= 100

\* C22 (counter invariant), as claimed: in every state of the recorder
\* 0 <= correct_answers <= questions_asked <= QUESTIONS_PER_SESSION and
\* there is one improvement note per question counted; an answer is counted
\* into correct_answers at most once (never more correct answers than
\* answers graded correct), also after a submit that raised on a grading
\* that lacks a field.
C22_Counters ==
    /\ 0 <= st.correct_answers
    /\ st.correct_answers <= st.questions_asked
    /\ st.questions_asked <= QUESTIONS_PER_SESSION
    /\ Len(st.improvement_areas) = st.questions_asked
    /\ st.correct_answers <= answers.correct

\* C23 (progress-key injectivity), as claimed: for all topic and language
\* strings, also ones that contain '_', an update_progress for one pair
\* leaves what get_topic_progress returns for every other pair as it was,
\* and the record get_topic_progress(t, l) returns has topic t and
\* language l.
C23_KeyInjective ==
    [][\A p \in KeyProgressInputs :
         UpdateProgress(p)
         => LET old == Service(history, file)
                new == Service(history', file')
            IN  \A t \in KeyTopics, l \in KeyLanguages :
                   /\ <<t, l>> # <<p.topic, p.language>>
                      => get_topic_progress(new, t, l) = get_topic_progress(old, t, l)
                   /\ get_topic_progress(new, t, l) # None
                      => /\ get_topic_progress(new, t, l).topic = t
                         /\ get_topic_progress(new, t, l).language = l
      ]_vars

\* C24 (a graded answer updates the session's own record), as claimed: a
\* submit that grades an answer and does not end the session changes no
\* session entry and no progress record other than the one of the topic
\* and language selected when the question was generated (the key
\* generate_question read the mastered subtopics from), whatever topic the
\* oracle wrote into the question.
C24_GradesOwnRecord ==
    [][(calls'.action = "submit" /\ ~calls'.completed)
        => LET generated == presented[Len(presented)].selection
               own == Key(generated.topic, generated.language)
           IN  /\ history'.sessions = history.sessions
               /\ DOMAIN history'.progress = DOMAIN history.progress
               /\ \A k \in DOMAIN history.progress :
                     k # own => history'.progress[k] = history.progress[k]
      ]_vars

====
